---- MODULE Spec2Model ----
(***************************************************************************)
(* Model of the BinanceDataStreamer actor (src/src/binance_streamer.py)    *)
(* and of the calls it makes on its collaborators: the identifier parsers, *)
(* the host's subscribe/unsubscribe interface and the Parquet data         *)
(* catalog.                                                                *)
(***************************************************************************)
EXTENDS Integers, Sequences, FiniteSets, TLC

\* ------------------------------------------------------------------ bounds

\* longest configured identifier list explored by the construction model
MaxCfgLen == 3
\* longest configured instrument list explored by the lifecycle model
MaxRoster == 2
\* longest configured bar-type list explored by the lifecycle model
MaxBarRoster == 1
\* number of events delivered to the routing callbacks in one run
MaxEvents == 3
\* number of lifecycle hook invocations (on_start / on_stop) in one run
MaxOps == 3
\* events routed in one run of the status model
MaxStatusEvents == 2
\* failed inventory queries in one run of the status model
MaxStatusErrors == 1
\* events of each category the long single-instrument feed delivers
MaxQuotes == 250
MaxTrades == 15
MaxDeltas == 100
MaxBars == 2
MaxActorEvents == 1

\* ------------------------------------------------------- identifier strings

\* configured instrument strings: two well-formed ids and one without a venue
InstrumentStrs == {"ADAUSDT-PERP.BINANCE", "LTCUSDT-PERP.BINANCE", "ADAUSDT-PERP"}

\* configured bar-type strings: two well-formed and one without price type / source
BarTypeStrs ==
    {"ADAUSDT-PERP.BINANCE-1-MINUTE-LAST-EXTERNAL",
     "LTCUSDT-PERP.BINANCE-1-MINUTE-LAST-EXTERNAL",
     "ADAUSDT-PERP.BINANCE-1-MINUTE"}

\* InstrumentId.from_str: symbol and venue split at the last '.', failing without one
InstrumentIdTable ==
    ("ADAUSDT-PERP.BINANCE" :> [symbol |-> "ADAUSDT-PERP", venue |-> "BINANCE"]) @@
    ("LTCUSDT-PERP.BINANCE" :> [symbol |-> "LTCUSDT-PERP", venue |-> "BINANCE"])

\* BarType.from_str: instrument id, bar specification and aggregation source
BarTypeTable ==
    ("ADAUSDT-PERP.BINANCE-1-MINUTE-LAST-EXTERNAL" :>
        [instrument_id |-> InstrumentIdTable["ADAUSDT-PERP.BINANCE"],
         spec |-> "1-MINUTE-LAST", source |-> "EXTERNAL"]) @@
    ("LTCUSDT-PERP.BINANCE-1-MINUTE-LAST-EXTERNAL" :>
        [instrument_id |-> InstrumentIdTable["LTCUSDT-PERP.BINANCE"],
         spec |-> "1-MINUTE-LAST", source |-> "EXTERNAL"])

\* the instrument ids and bar types an event can carry
InstrumentIds == {InstrumentIdTable[s] : s \in DOMAIN InstrumentIdTable}
BarTypes == {BarTypeTable[s] : s \in DOMAIN BarTypeTable}

\* str(bar.bar_type): the canonical string of a bar type
BarTypeStr(bt) == CHOOSE s \in DOMAIN BarTypeTable : BarTypeTable[s] = bt

\* self.book_type = BookType.L2_MBP
book_type == "L2_MBP"

\* all sequences over S of length at most n
SeqsUpTo(S, n) == UNION {[1..k -> S] : k \in 0..n}

\* ------------------------------------------------------------------- state

VARIABLES
    pc,                     \* "new" before __init__ has run, "ready" after
    config_instrument_ids,  \* self.config.instrument_ids
    config_bar_types,       \* self.config.bar_types
    instrument_ids,         \* self.instrument_ids
    bar_types,              \* self.bar_types
    bar_counts,             \* self.bar_counts (dict: bar-type string -> count)
    quote_count,            \* self.quote_count
    trade_count,            \* self.trade_count
    deltas_count,           \* self.deltas_count
    log_error,              \* messages passed to self.log.error
    log_info,               \* number of self.log.info messages of each routing category
    delivered,              \* history: events handed to the routing callbacks
    writes,                 \* history: data_catalog.write_data calls and their outcome
    active,                 \* host: subscriptions currently live
    calls,                  \* subscribe/unsubscribe calls issued by the latest hook
    raised,                 \* the exception that escaped the latest handler, or "none"
    lastOp,                 \* the latest handler that ran
    prevOp,                 \* the handler that ran before it
    prevRaised,             \* what escaped the handler before the latest
    opCount,                \* number of lifecycle hooks run so far
    status_report,          \* what the latest _log_status wrote to the log
    node,                   \* main: how far the host has got with the trading node
    thread                  \* parallel delivery: the callback each host thread is in

vars ==
    <<pc, config_instrument_ids, config_bar_types, instrument_ids, bar_types,
      bar_counts, quote_count, trade_count, deltas_count, log_error, log_info,
      delivered, writes, active, calls, raised, lastOp, prevOp,
      prevRaised, opCount, status_report, node, thread>>

configVars == <<config_instrument_ids, config_bar_types>>
rosterVars == <<instrument_ids, bar_types>>
counterVars == <<bar_counts, quote_count, trade_count, deltas_count>>
catalogVars == <<delivered, writes>>
hostVars == <<active, calls>>
historyVars == <<lastOp, prevOp, prevRaised, opCount>>
otherVars == <<status_report, node, thread>>

\* the host threads of the parallel-delivery model
Threads == {"t1", "t2"}

\* a host thread that is in no callback
Idle == [pc |-> "idle"]

\* no status report has been written yet
NoReport == [counters |-> [x \in {} |-> 0], inventory |-> "none", data_types |-> {}]

\* ------------------------------------------------------------ construction

\* a Python dict as a function; d[k] = v
DictSet(d, k, v) == [x \in (DOMAIN d) \cup {k} |-> IF x = k THEN v ELSE d[x]]

\* d.get(k, default)
DictGet(d, k, default) == IF k \in DOMAIN d THEN d[k] ELSE default

EmptyDict == [x \in {} |-> 0]

\* variant of the bar-type loop that stops at the first string that fails to parse
RECURSIVE ParseBarTypesAbort(_, _)
ParseBarTypesAbort(strs, acc) ==
    IF strs = <<>> THEN acc
    ELSE LET s == Head(strs) IN
         IF s \in DOMAIN BarTypeTable
         THEN ParseBarTypesAbort(Tail(strs),
                [acc EXCEPT !.bar_types = Append(@, BarTypeTable[s]),
                            !.bar_counts = DictSet(@, s, 0)])
         ELSE [acc EXCEPT !.errors = Append(@, <<"bar_type", s>>)]

\* variant of the bar-type loop that zeroes the counter of a string before parsing it
RECURSIVE ParseBarTypesCountFirst(_, _)
ParseBarTypesCountFirst(strs, acc) ==
    IF strs = <<>> THEN acc
    ELSE LET s == Head(strs)
             counted == [acc EXCEPT !.bar_counts = DictSet(@, s, 0)]
         IN  ParseBarTypesCountFirst(Tail(strs),
                IF s \in DOMAIN BarTypeTable
                THEN [counted EXCEPT !.bar_types = Append(@, BarTypeTable[s])]
                ELSE [counted EXCEPT !.errors = Append(@, <<"bar_type", s>>)])

\* the loop over self.config.bar_types: append the parsed BarType and zero its
\* counter, or log the string that failed to parse and go on
RECURSIVE ParseBarTypes(_, _)
ParseBarTypes(strs, acc) ==
    IF strs = <<>> THEN acc
    ELSE LET s == Head(strs) IN
         ParseBarTypes(Tail(strs),
            IF s \in DOMAIN BarTypeTable
            THEN [acc EXCEPT !.bar_types = Append(@, BarTypeTable[s]),
                             !.bar_counts = DictSet(@, s, 0)]
            ELSE [acc EXCEPT !.errors = Append(@, <<"bar_type", s>>)])

\* the loop over self.config.instrument_ids
RECURSIVE ParseInstrumentIds(_, _)
ParseInstrumentIds(strs, acc) ==
    IF strs = <<>> THEN acc
    ELSE LET s == Head(strs) IN
         ParseInstrumentIds(Tail(strs),
            IF s \in DOMAIN InstrumentIdTable
            THEN [acc EXCEPT !.instrument_ids = Append(@, InstrumentIdTable[s])]
            ELSE [acc EXCEPT !.errors = Append(@, <<"instrument_id", s>>)])

\* the fields __init__ leaves behind for the given configuration
Constructed(cfg_instruments, cfg_bars) ==
    LET start == [bar_types |-> <<>>, bar_counts |-> EmptyDict,
                  instrument_ids |-> <<>>, errors |-> <<>>]
        bars == ParseBarTypes(cfg_bars, start)
    IN  ParseInstrumentIds(cfg_instruments, bars)

NoLogs == [c \in {"quote", "trade", "deltas", "bar", "instrument"} |-> 0]

\* the part of the state __init__ does not depend on the configuration for
Untouched ==
    /\ quote_count = 0
    /\ trade_count = 0
    /\ deltas_count = 0
    /\ log_info = NoLogs
    /\ delivered = <<>>
    /\ writes = <<>>
    /\ active = {}
    /\ calls = <<>>
    /\ raised = "none"
    /\ lastOp = "none"
    /\ prevOp = "none"
    /\ prevRaised = "none"
    /\ opCount = 0
    /\ status_report = NoReport
    /\ node = "built"
    /\ thread = [t \in Threads |-> Idle]

\* before construction: a configuration has been chosen, nothing is resolved
InitNew ==
    /\ pc = "new"
    /\ config_instrument_ids \in SeqsUpTo(InstrumentStrs, MaxCfgLen)
    /\ config_bar_types \in SeqsUpTo(BarTypeStrs, MaxCfgLen)
    /\ instrument_ids = <<>>
    /\ bar_types = <<>>
    /\ bar_counts = EmptyDict
    /\ log_error = <<>>
    /\ Untouched

\* BinanceDataStreamer.__init__
Construct ==
    /\ pc = "new"
    /\ LET c == Constructed(config_instrument_ids, config_bar_types) IN
        /\ instrument_ids' = c.instrument_ids
        /\ bar_types' = c.bar_types
        /\ bar_counts' = c.bar_counts
        /\ log_error' = c.errors
    /\ quote_count' = 0
    /\ trade_count' = 0
    /\ deltas_count' = 0
    /\ pc' = "ready"
    /\ lastOp' = "__init__"
    /\ UNCHANGED <<configVars, log_info, catalogVars, hostVars, raised, prevOp,
                   prevRaised, opCount, otherVars>>

NextInit == Construct

SpecInit == InitNew /\ [][NextInit]_vars

\* the state right after __init__ for the given configuration
ConstructedState(cfg_instruments, cfg_bars) ==
    /\ pc = "ready"
    /\ config_instrument_ids = cfg_instruments
    /\ config_bar_types = cfg_bars
    /\ LET c == Constructed(cfg_instruments, cfg_bars) IN
        /\ instrument_ids = c.instrument_ids
        /\ bar_types = c.bar_types
        /\ bar_counts = c.bar_counts
        /\ log_error = c.errors
    /\ Untouched

\* ----------------------------------------------------------------- routing

\* the events the feed can deliver; seq is the position in the delivery order
QuoteTicks(n) == {[cat |-> "quote", key |-> i, seq |-> n] : i \in InstrumentIds}
TradeTicks(n) == {[cat |-> "trade", key |-> i, seq |-> n] : i \in InstrumentIds}
OrderBookDeltas(n) == {[cat |-> "deltas", key |-> i, seq |-> n] : i \in InstrumentIds}
Bars(n) == {[cat |-> "bar", key |-> b, seq |-> n] : b \in BarTypes}
Instruments(n) == {[cat |-> "instrument", key |-> i, seq |-> n] : i \in InstrumentIds}

\* variant of the write call that puts the newest record in front of the older ones
write_data_front(batch, mode, ok) ==
    /\ writes' = <<[batch |-> batch, mode |-> mode, ok |-> ok]>> \o writes
    /\ raised' = IF ok THEN "none" ELSE "write_data"

\* self.data_catalog.write_data(batch, mode=...): the call is recorded with its
\* outcome; when it raises, nothing in the callback catches the exception
write_data(batch, mode, ok) ==
    /\ writes' = Append(writes, [batch |-> batch, mode |-> mode, ok |-> ok])
    /\ raised' = IF ok THEN "none" ELSE "write_data"

\* self.log.info(...) of a routing callback
LogInfo(cat) == [log_info EXCEPT ![cat] = @ + 1]

\* what every routing callback leaves alone, and the bookkeeping of the run
Routed(name, event) ==
    /\ pc = "ready"
    /\ event.seq = Len(delivered) + 1
    /\ delivered' = Append(delivered, event)
    /\ lastOp' = name
    /\ prevOp' = lastOp
    /\ prevRaised' = raised
    /\ UNCHANGED <<pc, configVars, rosterVars, log_error, hostVars, opCount, otherVars>>

\* variant of on_instrument that writes in append mode like the stream callbacks
on_instrument_append(instrument, ok) ==
    /\ Routed("on_instrument", instrument)
    /\ log_info' = LogInfo("instrument")
    /\ write_data(<<instrument>>, "APPEND", ok)
    /\ UNCHANGED counterVars

\* BinanceDataStreamer.on_instrument
on_instrument(instrument, ok) ==
    /\ Routed("on_instrument", instrument)
    /\ log_info' = LogInfo("instrument")
    /\ write_data(<<instrument>>, "DEFAULT", ok)
    /\ UNCHANGED counterVars

\* variant of on_quote_tick that decides on the log before it counts the tick
on_quote_tick_log_first(tick, ok) ==
    /\ Routed("on_quote_tick", tick)
    /\ log_info' = IF quote_count % 100 = 0 THEN LogInfo("quote") ELSE log_info
    /\ quote_count' = quote_count + 1
    /\ write_data(<<tick>>, "APPEND", ok)
    /\ UNCHANGED <<trade_count, deltas_count, bar_counts>>

\* BinanceDataStreamer.on_quote_tick
on_quote_tick(tick, ok) ==
    /\ Routed("on_quote_tick", tick)
    /\ quote_count' = quote_count + 1
    /\ log_info' = IF quote_count' % 100 = 0 THEN LogInfo("quote") ELSE log_info
    /\ write_data(<<tick>>, "APPEND", ok)
    /\ UNCHANGED <<trade_count, deltas_count, bar_counts>>

\* variant of on_trade_tick that writes first and counts only a successful write
on_trade_tick_write_first(tick, ok) ==
    /\ Routed("on_trade_tick", tick)
    /\ write_data(<<tick>>, "APPEND", ok)
    /\ trade_count' = IF ok THEN trade_count + 1 ELSE trade_count
    /\ log_info' = IF ok /\ trade_count' % 10 = 0 THEN LogInfo("trade") ELSE log_info
    /\ UNCHANGED <<quote_count, deltas_count, bar_counts>>

\* BinanceDataStreamer.on_trade_tick
on_trade_tick(tick, ok) ==
    /\ Routed("on_trade_tick", tick)
    /\ trade_count' = trade_count + 1
    /\ log_info' = IF trade_count' % 10 = 0 THEN LogInfo("trade") ELSE log_info
    /\ write_data(<<tick>>, "APPEND", ok)
    /\ UNCHANGED <<quote_count, deltas_count, bar_counts>>

\* variant of on_order_book_deltas that counts the book update as a trade as well
on_order_book_deltas_as_trade(deltas, ok) ==
    /\ Routed("on_order_book_deltas", deltas)
    /\ deltas_count' = deltas_count + 1
    /\ trade_count' = trade_count + 1
    /\ log_info' = IF deltas_count' % 100 = 0 THEN LogInfo("deltas") ELSE log_info
    /\ write_data(<<deltas>>, "APPEND", ok)
    /\ UNCHANGED <<quote_count, bar_counts>>

\* BinanceDataStreamer.on_order_book_deltas
on_order_book_deltas(deltas, ok) ==
    /\ Routed("on_order_book_deltas", deltas)
    /\ deltas_count' = deltas_count + 1
    /\ log_info' = IF deltas_count' % 100 = 0 THEN LogInfo("deltas") ELSE log_info
    /\ write_data(<<deltas>>, "APPEND", ok)
    /\ UNCHANGED <<quote_count, trade_count, bar_counts>>

\* variant of on_bar that counts only the bar types __init__ gave an entry
on_bar_known_only(bar, ok) ==
    /\ Routed("on_bar", bar)
    /\ LET bar_type_str == BarTypeStr(bar.key) IN
        bar_counts' = IF bar_type_str \in DOMAIN bar_counts
                      THEN DictSet(bar_counts, bar_type_str, bar_counts[bar_type_str] + 1)
                      ELSE bar_counts
    /\ log_info' = LogInfo("bar")
    /\ write_data(<<bar>>, "APPEND", ok)
    /\ UNCHANGED <<quote_count, trade_count, deltas_count>>

\* BinanceDataStreamer.on_bar
on_bar(bar, ok) ==
    /\ Routed("on_bar", bar)
    /\ LET bar_type_str == BarTypeStr(bar.key) IN
        bar_counts' = DictSet(bar_counts, bar_type_str,
                              DictGet(bar_counts, bar_type_str, 0) + 1)
    /\ log_info' = LogInfo("bar")
    /\ write_data(<<bar>>, "APPEND", ok)
    /\ UNCHANGED <<quote_count, trade_count, deltas_count>>

\* the bar-type rosters the routing model starts from: none configured, one
\* configured, and the two well-formed ones around a malformed one
RouteBarConfigs ==
    {<<>>,
     <<"ADAUSDT-PERP.BINANCE-1-MINUTE-LAST-EXTERNAL">>,
     <<"ADAUSDT-PERP.BINANCE-1-MINUTE-LAST-EXTERNAL",
       "ADAUSDT-PERP.BINANCE-1-MINUTE",
       "LTCUSDT-PERP.BINANCE-1-MINUTE-LAST-EXTERNAL">>}

\* the instrument roster of the routing model
RouteInstrumentConfig == <<"ADAUSDT-PERP.BINANCE", "LTCUSDT-PERP.BINANCE">>

Init ==
    \E cfg_bars \in RouteBarConfigs :
        ConstructedState(RouteInstrumentConfig, cfg_bars)

\* the feed delivers one more event, of any category and key, and the catalog
\* accepts or refuses it
Route(instruments, types) ==
    LET n == Len(delivered) + 1 IN
    \/ \E e \in Instruments(n), ok \in BOOLEAN :
            e.key \in instruments /\ on_instrument(e, ok)
    \/ \E e \in QuoteTicks(n), ok \in BOOLEAN :
            e.key \in instruments /\ on_quote_tick(e, ok)
    \/ \E e \in TradeTicks(n), ok \in BOOLEAN :
            e.key \in instruments /\ on_trade_tick(e, ok)
    \/ \E e \in OrderBookDeltas(n), ok \in BOOLEAN :
            e.key \in instruments /\ on_order_book_deltas(e, ok)
    \/ \E e \in Bars(n), ok \in BOOLEAN :
            e.key \in types /\ on_bar(e, ok)

Next == Len(delivered) < MaxEvents /\ Route(InstrumentIds, BarTypes)

Spec == Init /\ [][Next]_vars

\* ------------------------------------------------------- parallel delivery

\* variant in which the trade callback counts into the quote counter
SlotQuoteForTrade(e) ==
    IF e.cat = "bar" THEN <<"bar", BarTypeStr(e.key)>>
    ELSE IF e.cat = "trade" THEN <<"quote">> ELSE <<e.cat>>

\* the counter the callback of an event increments: the field of its category,
\* or the bar_counts entry of its bar-type string
Slot(e) == IF e.cat = "bar" THEN <<"bar", BarTypeStr(e.key)>> ELSE <<e.cat>>

\* the value a callback reads from its counter
ReadSlot(s) ==
    CASE s[1] = "quote" -> quote_count
      [] s[1] = "trade" -> trade_count
      [] s[1] = "deltas" -> deltas_count
      [] s[1] = "bar" -> DictGet(bar_counts, s[2], 0)

\* the events in flight: handed to a callback that has not returned yet
InFlight == {thread[t].event : t \in {u \in Threads : thread[u].pc \notin {"idle", "done"}}}

\* what a step of a callback on a host thread leaves alone
Stepped ==
    /\ pc = "ready"
    /\ UNCHANGED <<pc, configVars, rosterVars, log_error, hostVars, historyVars,
                   status_report, node>>

\* a host thread enters the callback of an event that differs in category or key
\* from every event in flight
par_enter(t, e) ==
    /\ Stepped
    /\ thread[t].pc = "idle"
    /\ e.seq = Len(delivered) + 1
    /\ \A f \in InFlight : f.cat # e.cat \/ f.key # e.key
    /\ delivered' = Append(delivered, e)
    /\ thread' = [thread EXCEPT ![t] = [pc |-> "read", event |-> e, tmp |-> 0]]
    /\ UNCHANGED <<counterVars, log_info, writes, raised>>

\* the callback loads its counter: self.quote_count, or self.bar_counts.get(k, 0)
par_read(t) ==
    /\ Stepped
    /\ thread[t].pc = "read"
    /\ thread' = [thread EXCEPT ![t].pc = "store",
                                ![t].tmp = ReadSlot(Slot(thread[t].event))]
    /\ UNCHANGED <<counterVars, log_info, catalogVars, raised>>

\* the callback stores the loaded value plus one and logs at its cadence
par_store(t) ==
    /\ Stepped
    /\ thread[t].pc = "store"
    /\ LET e == thread[t].event
           s == Slot(e)
           v == thread[t].tmp + 1
       IN  /\ quote_count' = IF s[1] = "quote" THEN v ELSE quote_count
           /\ trade_count' = IF s[1] = "trade" THEN v ELSE trade_count
           /\ deltas_count' = IF s[1] = "deltas" THEN v ELSE deltas_count
           /\ bar_counts' = IF s[1] = "bar" THEN DictSet(bar_counts, s[2], v)
                            ELSE bar_counts
           /\ log_info' =
                IF \/ e.cat = "bar"
                   \/ e.cat = "trade" /\ v % 10 = 0
                   \/ e.cat \in {"quote", "deltas"} /\ v % 100 = 0
                THEN LogInfo(e.cat) ELSE log_info
    /\ thread' = [thread EXCEPT ![t].pc = "write"]
    /\ UNCHANGED <<catalogVars, raised>>

\* the callback writes its event to the catalog and returns or raises
par_write(t, ok) ==
    /\ Stepped
    /\ thread[t].pc = "write"
    /\ write_data(<<thread[t].event>>, "APPEND", ok)
    /\ thread' = [thread EXCEPT ![t].pc = "done"]
    /\ UNCHANGED <<counterVars, log_info, delivered>>

InitPar ==
    \E cfg_bars \in RouteBarConfigs :
        ConstructedState(RouteInstrumentConfig, cfg_bars)

NextPar ==
    LET n == Len(delivered) + 1 IN
    \/ \E t \in Threads :
         \E e \in QuoteTicks(n) \cup TradeTicks(n) \cup OrderBookDeltas(n) \cup Bars(n) :
            par_enter(t, e)
    \/ \E t \in Threads : par_read(t)
    \/ \E t \in Threads : par_store(t)
    \/ \E t \in Threads, ok \in BOOLEAN : par_write(t, ok)

SpecPar == InitPar /\ [][NextPar]_vars

\* ------------------------------------------------------------------ status

\* self.data_catalog.list_data_types(): the types of the records the catalog holds
list_data_types ==
    {writes[i].batch[1].cat : i \in {j \in 1..Len(writes) : writes[j].ok}}

\* the counter lines of the report: the quote total, the trade total and one
\* line per entry of self.bar_counts
CounterLines == ("quote" :> quote_count) @@ ("trade" :> trade_count) @@ bar_counts

\* what _log_status leaves alone, and the bookkeeping of the run
Reported ==
    /\ pc = "ready"
    /\ lastOp' = "_log_status"
    /\ prevOp' = lastOp
    /\ prevRaised' = raised
    /\ UNCHANGED <<pc, configVars, rosterVars, log_info, catalogVars, hostVars,
                   opCount, node, thread>>

\* variant of _log_status that starts the bar counters afresh after reporting them
log_status_reset(inventory_ok) ==
    /\ Reported
    /\ status_report' =
            [counters |-> CounterLines,
             inventory |-> IF inventory_ok THEN "listed" ELSE "failed",
             data_types |-> IF inventory_ok THEN list_data_types ELSE {}]
    /\ log_error' =
            IF inventory_ok THEN log_error
            ELSE Append(log_error, <<"catalog", "list_data_types">>)
    /\ raised' = "none"
    /\ bar_counts' = [s \in DOMAIN bar_counts |-> 0]
    /\ UNCHANGED <<quote_count, trade_count, deltas_count>>

\* variant of _log_status without the try/except around the inventory query
log_status_uncaught(inventory_ok) ==
    /\ Reported
    /\ status_report' =
            [counters |-> CounterLines,
             inventory |-> IF inventory_ok THEN "listed" ELSE "failed",
             data_types |-> IF inventory_ok THEN list_data_types ELSE {}]
    /\ log_error' = log_error
    /\ raised' = IF inventory_ok THEN "none" ELSE "list_data_types"
    /\ UNCHANGED counterVars

\* BinanceDataStreamer._log_status: the counter lines are logged, then the
\* inventory is queried and logged, or the failure of the query is caught and logged
log_status(inventory_ok) ==
    /\ Reported
    /\ status_report' =
            [counters |-> CounterLines,
             inventory |-> IF inventory_ok THEN "listed" ELSE "failed",
             data_types |-> IF inventory_ok THEN list_data_types ELSE {}]
    /\ log_error' =
            IF inventory_ok THEN log_error
            ELSE Append(log_error, <<"catalog", "list_data_types">>)
    /\ raised' = "none"
    /\ UNCHANGED counterVars

\* inventory queries that have failed so far
CatalogErrors == Len(SelectSeq(log_error, LAMBDA m : m[1] = "catalog"))

InitStatus ==
    \E cfg_bars \in RouteBarConfigs :
        ConstructedState(RouteInstrumentConfig, cfg_bars)

NextStatus ==
    \/ Len(delivered) < MaxStatusEvents /\ Route(InstrumentIds, BarTypes)
    \/ \E inventory_ok \in BOOLEAN :
            /\ inventory_ok \/ CatalogErrors < MaxStatusErrors
            /\ log_status(inventory_ok)

SpecStatus == InitStatus /\ [][NextStatus]_vars

\* ------------------------------------------------- a long one-instrument feed

\* the instrument and the bar type of the long feed
FeedInstrument == InstrumentIdTable["ADAUSDT-PERP.BINANCE"]
FeedBarType == BarTypeTable["ADAUSDT-PERP.BINANCE-1-MINUTE-LAST-EXTERNAL"]

\* the next event of the long feed, of the given category
FeedEvent(cat) ==
    [cat |-> cat, key |-> IF cat = "bar" THEN FeedBarType ELSE FeedInstrument,
     seq |-> Len(delivered) + 1]

\* bars delivered so far to the configured bar type of the long feed
FeedBars == DictGet(bar_counts, BarTypeStr(FeedBarType), 0)

InitFeed ==
    ConstructedState(<<"ADAUSDT-PERP.BINANCE">>,
                     <<"ADAUSDT-PERP.BINANCE-1-MINUTE-LAST-EXTERNAL">>)

\* the feed delivers either quotes and then trades, or book deltas and then bars,
\* all for one instrument and every write accepted
NextFeed ==
    \/ /\ quote_count < MaxQuotes
       /\ trade_count = 0 /\ deltas_count = 0 /\ FeedBars = 0
       /\ on_quote_tick(FeedEvent("quote"), TRUE)
    \/ /\ trade_count < MaxTrades
       /\ deltas_count = 0 /\ FeedBars = 0
       /\ on_trade_tick(FeedEvent("trade"), TRUE)
    \/ /\ deltas_count < MaxDeltas
       /\ quote_count = 0 /\ trade_count = 0 /\ FeedBars = 0
       /\ on_order_book_deltas(FeedEvent("deltas"), TRUE)
    \/ /\ FeedBars < MaxBars
       /\ quote_count = 0 /\ trade_count = 0
       /\ on_bar(FeedEvent("bar"), TRUE)

SpecFeed == InitFeed /\ [][NextFeed]_vars

\* --------------------------------------------------------------- lifecycle

\* one call on the host's subscription interface and whether it returned
Call(op, kind, target, args, ok) ==
    [op |-> op, kind |-> kind, target |-> target, args |-> args, ok |-> ok]

\* the subscription a call is about
Entry(c) == [kind |-> c.kind, target |-> c.target]

\* variant of the loop body of on_start without the trade subscription and with a
\* ten-level book
SubscribeInstrumentShallow(instrument_id) ==
    << Call("subscribe", "instrument", instrument_id, <<>>, TRUE),
       Call("subscribe", "quote_ticks", instrument_id, <<>>, TRUE),
       Call("subscribe", "order_book_deltas", instrument_id, <<book_type, 10>>, TRUE) >>

\* the body of the instrument loop of on_start
SubscribeInstrument(instrument_id) ==
    << Call("subscribe", "instrument", instrument_id, <<>>, TRUE),
       Call("subscribe", "quote_ticks", instrument_id, <<>>, TRUE),
       Call("subscribe", "trade_ticks", instrument_id, <<>>, TRUE),
       Call("subscribe", "order_book_deltas", instrument_id, <<book_type, 0>>, TRUE) >>

\* the body of the bar-type loop of on_start
SubscribeBars(bar_type) == << Call("subscribe", "bars", bar_type, <<>>, TRUE) >>

\* the body of the instrument loop of on_stop
UnsubscribeInstrument(instrument_id) ==
    << Call("unsubscribe", "quote_ticks", instrument_id, <<>>, TRUE),
       Call("unsubscribe", "trade_ticks", instrument_id, <<>>, TRUE),
       Call("unsubscribe", "order_book_deltas", instrument_id, <<book_type>>, TRUE) >>

\* the body of the bar-type loop of on_stop
UnsubscribeBars(bar_type) == << Call("unsubscribe", "bars", bar_type, <<>>, TRUE) >>

\* for instrument_id in self.instrument_ids, in on_start
RECURSIVE SubscribeInstruments(_)
SubscribeInstruments(ids) ==
    IF ids = <<>> THEN <<>>
    ELSE SubscribeInstrument(Head(ids)) \o SubscribeInstruments(Tail(ids))

\* for bar_type in self.bar_types, in on_start
RECURSIVE SubscribeAllBars(_)
SubscribeAllBars(types) ==
    IF types = <<>> THEN <<>>
    ELSE SubscribeBars(Head(types)) \o SubscribeAllBars(Tail(types))

\* for instrument_id in self.instrument_ids, in on_stop
RECURSIVE UnsubscribeInstruments(_)
UnsubscribeInstruments(ids) ==
    IF ids = <<>> THEN <<>>
    ELSE UnsubscribeInstrument(Head(ids)) \o UnsubscribeInstruments(Tail(ids))

\* for bar_type in self.bar_types, in on_stop
RECURSIVE UnsubscribeAllBars(_)
UnsubscribeAllBars(types) ==
    IF types = <<>> THEN <<>>
    ELSE UnsubscribeBars(Head(types)) \o UnsubscribeAllBars(Tail(types))

\* the calls on_start makes when none of them raises
StartCalls == SubscribeInstruments(instrument_ids) \o SubscribeAllBars(bar_types)

\* the calls on_stop makes when none of them raises
StopCalls == UnsubscribeInstruments(instrument_ids) \o UnsubscribeAllBars(bar_types)

\* the calls actually issued when the failAt-th one raises (0: none raises): the
\* hooks catch nothing, so the call that raises is the last one issued
Issued(all, failAt) ==
    IF failAt = 0 THEN all
    ELSE [i \in 1..failAt |-> IF i = failAt THEN [all[i] EXCEPT !.ok = FALSE] ELSE all[i]]

\* the subscriptions of the calls that returned
Done(issued) == {Entry(issued[i]) : i \in {j \in 1..Len(issued) : issued[j].ok}}

\* variant of the lifecycle hooks that starts the counters afresh
HookedFresh(name) ==
    /\ pc = "ready"
    /\ opCount < MaxOps
    /\ opCount' = opCount + 1
    /\ lastOp' = name
    /\ prevOp' = lastOp
    /\ prevRaised' = raised
    /\ quote_count' = 0
    /\ trade_count' = 0
    /\ deltas_count' = 0
    /\ bar_counts' = [s \in DOMAIN bar_counts |-> 0]
    /\ UNCHANGED <<pc, configVars, rosterVars, log_error, log_info,
                   catalogVars, status_report, thread>>

\* what the lifecycle hooks leave alone, and the bookkeeping of the run
Hooked(name) ==
    /\ pc = "ready"
    /\ opCount < MaxOps
    /\ opCount' = opCount + 1
    /\ lastOp' = name
    /\ prevOp' = lastOp
    /\ prevRaised' = raised
    /\ UNCHANGED <<pc, configVars, rosterVars, counterVars, log_error, log_info,
                   catalogVars, status_report, thread>>

\* BinanceDataStreamer.on_start
on_start(failAt) ==
    /\ Hooked("on_start")
    /\ failAt \in 0..Len(StartCalls)
    /\ calls' = Issued(StartCalls, failAt)
    /\ active' = active \cup Done(calls')
    /\ raised' = IF failAt = 0 THEN "none" ELSE "subscribe"

\* BinanceDataStreamer.on_stop
on_stop(failAt) ==
    /\ Hooked("on_stop")
    /\ failAt \in 0..Len(StopCalls)
    /\ calls' = Issued(StopCalls, failAt)
    /\ active' = active \ Done(calls')
    /\ raised' = IF failAt = 0 THEN "none" ELSE "unsubscribe"

InitLife ==
    \E cfg_instruments \in SeqsUpTo(InstrumentStrs, MaxRoster),
       cfg_bars \in SeqsUpTo(BarTypeStrs, MaxBarRoster) :
        ConstructedState(cfg_instruments, cfg_bars)

NextLife ==
    \/ \E failAt \in 0..(4 * MaxRoster + MaxBarRoster) :
            on_start(failAt) /\ UNCHANGED node
    \/ \E failAt \in 0..(3 * MaxRoster + MaxBarRoster) :
            on_stop(failAt) /\ UNCHANGED node

SpecLife == InitLife /\ [][NextLife]_vars

\* -------------------------------------------------------------------- host

\* main: await node.run_async() starts the actor; an exception of on_start is
\* caught by main and leads to its finally block
main_run(failAt) ==
    /\ node = "built"
    /\ on_start(failAt)
    /\ node' = IF failAt = 0 THEN "running" ELSE "failed"

\* main: the duration has elapsed and node.stop_async() stops the actor
main_timed_stop(failAt) ==
    /\ node = "running"
    /\ on_stop(failAt)
    /\ node' = IF failAt = 0 THEN "stopped" ELSE "failed"

\* main: the task is cancelled or an exception reaches main while the node runs
main_interrupted ==
    /\ node = "running"
    /\ pc = "ready"
    /\ node' = "interrupted"
    /\ UNCHANGED <<pc, configVars, rosterVars, counterVars, log_error, log_info,
                   catalogVars, hostVars, raised, historyVars, status_report, thread>>

\* main: the finally block stops the node, and disposes of it unless the stop raised
main_finally(failAt) ==
    /\ node \in {"stopped", "interrupted", "failed"}
    /\ on_stop(failAt)
    /\ node' = IF failAt = 0 THEN "disposed" ELSE "aborted"

NextHost ==
    \/ \E failAt \in 0..(4 * MaxRoster + MaxBarRoster) : main_run(failAt)
    \/ \E failAt \in 0..(3 * MaxRoster + MaxBarRoster) : main_timed_stop(failAt)
    \/ main_interrupted
    \/ \E failAt \in 0..(3 * MaxRoster + MaxBarRoster) : main_finally(failAt)

SpecHost == InitLife /\ [][NextHost]_vars

\* ------------------------------------------------------- the actor's lifetime

\* the roster of the lifetime model: one instrument and one bar type, as each
\* entry of the lists in main.py is handled alike
ActorInstrumentConfig == <<"ADAUSDT-PERP.BINANCE">>
ActorBarConfig == <<"ADAUSDT-PERP.BINANCE-1-MINUTE-LAST-EXTERNAL">>

\* the host feeds the actor the data of a subscription while it is in effect
Feeding(kind, target) == [kind |-> kind, target |-> target] \in active

InitActor == ConstructedState(ActorInstrumentConfig, ActorBarConfig)

\* the host starts and stops the actor, feeds it the data it is subscribed to,
\* and the status is logged, in any order; the inventory query answers here, its
\* failure is followed in SpecStatus
NextActor ==
    LET n == Len(delivered) + 1 IN
    \/ \E failAt \in 0..Len(StartCalls) : on_start(failAt) /\ UNCHANGED node
    \/ \E failAt \in 0..Len(StopCalls) : on_stop(failAt) /\ UNCHANGED node
    \/ log_status(TRUE)
    \/ \E e \in Instruments(n), ok \in BOOLEAN :
            /\ n <= MaxActorEvents
            /\ Feeding("instrument", e.key)
            /\ on_instrument(e, ok)
    \/ \E e \in QuoteTicks(n), ok \in BOOLEAN :
            /\ n <= MaxActorEvents
            /\ Feeding("quote_ticks", e.key)
            /\ on_quote_tick(e, ok)
    \/ \E e \in TradeTicks(n), ok \in BOOLEAN :
            /\ n <= MaxActorEvents
            /\ Feeding("trade_ticks", e.key)
            /\ on_trade_tick(e, ok)
    \/ \E e \in OrderBookDeltas(n), ok \in BOOLEAN :
            /\ n <= MaxActorEvents
            /\ Feeding("order_book_deltas", e.key)
            /\ on_order_book_deltas(e, ok)
    \/ \E e \in Bars(n), ok \in BOOLEAN :
            /\ n <= MaxActorEvents
            /\ Feeding("bars", e.key)
            /\ on_bar(e, ok)

SpecActor == InitActor /\ [][NextActor]_vars


\* ------------------------------------------------------ claims: construction

IsInstrumentStr(s) == s \in DOMAIN InstrumentIdTable
IsBarTypeStr(s) == s \in DOMAIN BarTypeTable

\* the messages of log_error about the given kind of identifier
ErrorsOf(kind) == SelectSeq(log_error, LAMBDA m : m[1] = kind)

\* C10: construction resolves exactly the well-formed entries of both configured
\* lists, in their original relative order with duplicates kept, finishes on every
\* list, and logs one error per skipped entry, so that the number skipped is the
\* list length minus the number resolved.
C10_ResolveStableFilter ==
    pc = "ready" =>
        LET goodI == SelectSeq(config_instrument_ids, IsInstrumentStr)
            goodB == SelectSeq(config_bar_types, IsBarTypeStr)
        IN  /\ instrument_ids = [i \in 1..Len(goodI) |-> InstrumentIdTable[goodI[i]]]
            /\ bar_types = [i \in 1..Len(goodB) |-> BarTypeTable[goodB[i]]]
            /\ Len(ErrorsOf("instrument_id")) =
                    Len(config_instrument_ids) - Len(instrument_ids)
            /\ Len(ErrorsOf("bar_type")) = Len(config_bar_types) - Len(bar_types)
            /\ Len(log_error) = Len(ErrorsOf("instrument_id")) + Len(ErrorsOf("bar_type"))

\* a duplicate instrument around a malformed one, and a malformed bar type first
C10_Witness ==
    /\ pc = "ready"
    /\ config_instrument_ids =
            <<"ADAUSDT-PERP.BINANCE", "ADAUSDT-PERP", "ADAUSDT-PERP.BINANCE">>
    /\ Len(instrument_ids) = 2
    /\ instrument_ids[1] = instrument_ids[2]
    /\ config_bar_types =
            <<"ADAUSDT-PERP.BINANCE-1-MINUTE",
              "LTCUSDT-PERP.BINANCE-1-MINUTE-LAST-EXTERNAL",
              "ADAUSDT-PERP.BINANCE-1-MINUTE-LAST-EXTERNAL">>
    /\ Len(bar_types) = 2
    /\ Len(log_error) = 2

\* ----------------------------------------------------------- claims: routing

CountedCats == {"quote", "trade", "deltas", "bar"}

\* positions of the delivered events of a category, and of one key of it
EventsOfCat(cat) == {i \in 1..Len(delivered) : delivered[i].cat = cat}
EventsOf(cat, key) == {i \in EventsOfCat(cat) : delivered[i].key = key}

AllWritesOk == \A i \in 1..Len(writes) : writes[i].ok

\* the counters as one table: a total per stream category, an entry per bar type
CounterTable ==
    [quote |-> quote_count, trade |-> trade_count, deltas |-> deltas_count,
     bar |-> [s \in DOMAIN BarTypeTable |-> DictGet(bar_counts, s, 0)]]

RoutingCallbacks ==
    {"on_instrument", "on_quote_tick", "on_trade_tick", "on_order_book_deltas", "on_bar"}

\* C3: a failing catalog write is recovered inside the routing callback, so no
\* error escapes a routing callback.
C3_NoErrorEscapesRouting ==
    lastOp \in RoutingCallbacks => raised = "none"

\* the table after one more event of e's category and key has been counted
Bumped(table, e) ==
    IF e.cat = "bar"
    THEN [table EXCEPT !.bar[BarTypeStr(e.key)] = @ + 1]
    ELSE IF e.cat \in CountedCats THEN [table EXCEPT ![e.cat] = @ + 1]
    ELSE table

\* C4: in all four counted categories, when the write of an event fails the
\* counter of the event's category and key is one more than before the event and
\* every other count is what it was.
C4_CountThenForward ==
    [][(/\ Len(delivered') = Len(delivered) + 1
        /\ ~writes'[Len(writes')].ok
        /\ delivered'[Len(delivered')].cat \in CountedCats)
       => CounterTable' = Bumped(CounterTable, delivered'[Len(delivered')])]_vars

\* a trade was counted and written, then the write of a second trade failed
C4_Witness ==
    /\ Len(writes) = 2
    /\ lastOp = "on_trade_tick"
    /\ prevOp = "on_trade_tick"
    /\ writes[1].ok
    /\ ~writes[2].ok
    /\ raised = "write_data"
    /\ trade_count = 2

\* records of a category the catalog accepted
Written(cat) == {i \in 1..Len(writes) : writes[i].ok /\ writes[i].batch[1].cat = cat}

\* the sum of f over the keys in S
RECURSIVE SumOver(_, _)
SumOver(f, S) ==
    IF S = {} THEN 0
    ELSE LET k == CHOOSE x \in S : TRUE IN f[k] + SumOver(f, S \ {k})

\* the total of a category over its keys
CategoryTotal(cat) ==
    IF cat = "bar" THEN SumOver(bar_counts, DOMAIN bar_counts) ELSE CounterTable[cat]

\* C5: between two routed events the counter total of every counted category
\* equals the number of records of that category written to the catalog, also
\* when some writes fail.
C5_CountWriteParity ==
    \A cat \in CountedCats : CategoryTotal(cat) = Cardinality(Written(cat))

\* --------------------------------------------------------- claims: lifecycle

\* number of positions of seq holding x
Occurrences(seq, x) == Cardinality({i \in 1..Len(seq) : seq[i] = x})

\* number of issued subscribe calls of a kind for a target
Subscribed(kind, target) ==
    Cardinality({i \in 1..Len(calls) :
        /\ calls[i].op = "subscribe"
        /\ calls[i].kind = kind
        /\ calls[i].target = target})

InstrumentKinds == {"instrument", "quote_ticks", "trade_ticks", "order_book_deltas"}

\* every issued call is a subscribe call that returned, with the arguments of its kind
OnlySubscribes ==
    \A i \in 1..Len(calls) :
        /\ calls[i].op = "subscribe"
        /\ calls[i].ok
        /\ calls[i].kind \in InstrumentKinds \cup {"bars"}
        /\ calls[i].args =
                IF calls[i].kind = "order_book_deltas" THEN <<"L2_MBP", 0>> ELSE <<>>

\* C6: when a subscribe call fails during on_start, no error escapes on_start and
\* every other subscribe call is still issued, the failed entry alone staying
\* out of the active roster.
C6_SubscribeFailureIsolated ==
    lastOp = "on_start" =>
        /\ raised = "none"
        /\ Len(calls) = Len(StartCalls)

\* C7 as stated: after an on_start without a subscribe failure, every resolved
\* instrument has exactly one subscription of each of the four instrument kinds
\* (the book deltas with L2_MBP and depth 0), every resolved bar type exactly one
\* bar subscription, and nothing else is subscribed.
C7_EachSubscribedOnce ==
    (lastOp = "on_start" /\ raised = "none") =>
        /\ OnlySubscribes
        /\ \A k \in InstrumentKinds, i \in InstrumentIds :
            Subscribed(k, i) = IF Occurrences(instrument_ids, i) > 0 THEN 1 ELSE 0
        /\ \A b \in BarTypes :
            Subscribed("bars", b) = IF Occurrences(bar_types, b) > 0 THEN 1 ELSE 0
        /\ \A k \in InstrumentKinds, b \in BarTypes : Subscribed(k, b) = 0
        /\ \A i \in InstrumentIds : Subscribed("bars", i) = 0

\* C7 amended: after an on_start without a subscribe failure, every entry of the
\* resolved instrument list has caused one subscription of each of the four
\* instrument kinds (the book deltas with L2_MBP and depth 0), every entry of the
\* resolved bar-type list one bar subscription, and nothing else is subscribed;
\* a target is subscribed as many times as it occurs in its resolved list.
C7_OneSubscriptionPerEntry ==
    (lastOp = "on_start" /\ raised = "none") =>
        /\ OnlySubscribes
        /\ \A k \in InstrumentKinds, i \in InstrumentIds :
            Subscribed(k, i) = Occurrences(instrument_ids, i)
        /\ \A b \in BarTypes : Subscribed("bars", b) = Occurrences(bar_types, b)
        /\ \A k \in InstrumentKinds, b \in BarTypes : Subscribed(k, b) = 0
        /\ \A i \in InstrumentIds : Subscribed("bars", i) = 0
        /\ Len(calls) = 4 * Len(instrument_ids) + Len(bar_types)

\* on_start has run to its end on two different instruments and a bar type
C7_Witness ==
    /\ lastOp = "on_start"
    /\ raised = "none"
    /\ Len(instrument_ids) = 2
    /\ instrument_ids[1] # instrument_ids[2]
    /\ Len(bar_types) = 1
    /\ Len(calls) = 9
    /\ Cardinality(active) = 9

\* C8: an on_stop that follows on_start unsubscribes exactly the entries that are
\* active at that moment, so that none is active afterwards.
C8_StopSymmetricWithStart ==
    [][(/\ lastOp = "on_start"
        /\ raised = "none"
        /\ lastOp' = "on_stop"
        /\ raised' = "none")
       => (/\ {Entry(calls'[i]) : i \in 1..Len(calls')} = active
           /\ active' = {})]_vars

\* C9: an on_stop right after an on_stop that followed on_start raises nothing,
\* issues no unsubscribe call and leaves the subscriptions as they were.
C9_SecondStopIsNoOp ==
    [][(/\ prevOp = "on_start"
        /\ prevRaised = "none"
        /\ lastOp = "on_stop"
        /\ raised = "none"
        /\ lastOp' = "on_stop"
        /\ opCount' = opCount + 1)
       => (/\ raised' = "none"
           /\ calls' = <<>>
           /\ active' = active)]_vars

\* ------------------------------------------- claims: unresolved identifiers

\* the elements of a sequence
Range(seq) == {seq[i] : i \in 1..Len(seq)}

\* the configured strings a subscription target can have come from
SourcesOf(c) ==
    IF c.kind = "bars"
    THEN {s \in Range(config_bar_types) : IsBarTypeStr(s) /\ BarTypeTable[s] = c.target}
    ELSE {s \in Range(config_instrument_ids) :
            IsInstrumentStr(s) /\ InstrumentIdTable[s] = c.target}

\* the resolved handles equal to the target of a subscription
HandlesOf(c) ==
    IF c.kind = "bars"
    THEN {h \in Range(bar_types) : h = c.target}
    ELSE {h \in Range(instrument_ids) : h = c.target}

\* C11: in every state, across on_start and on_stop, every subscribe and
\* unsubscribe call issued is for the handle of a configured string that parsed
\* (none for a string that failed to parse), no bar counter entry exists for a
\* bar-type string that failed to parse, and every live subscription has exactly
\* one resolved handle as its target.
C11_UnresolvedNeverSubscribed ==
    /\ \A i \in 1..Len(calls) : SourcesOf(calls[i]) # {}
    /\ \A s \in DOMAIN bar_counts : IsBarTypeStr(s)
    /\ \A s \in Range(config_bar_types) : ~IsBarTypeStr(s) => s \notin DOMAIN bar_counts
    /\ \A e \in active : Cardinality(HandlesOf(e)) = 1

\* a malformed instrument string and a malformed bar-type string were configured
\* beside a well-formed instrument, and on_start and on_stop have both run
C11_Witness ==
    /\ config_instrument_ids = <<"ADAUSDT-PERP", "ADAUSDT-PERP.BINANCE">>
    /\ config_bar_types = <<"ADAUSDT-PERP.BINANCE-1-MINUTE">>
    /\ prevOp = "on_start"
    /\ prevRaised = "none"
    /\ lastOp = "on_stop"
    /\ raised = "none"
    /\ Len(calls) = 3
    /\ Cardinality(active) = 1

\* --------------------------------------------------- claims: sampled logging

\* write calls issued in append mode
AppendWrites == {i \in 1..Len(writes) : writes[i].mode = "APPEND"}

\* C12: the quote, trade and book-delta callbacks have logged once per full 100,
\* 10 and 100 events of their category and the bar callback once per bar, while
\* every counter equals the number of events of its category; after 250 quotes
\* followed by 15 trades of one instrument the counters are 250 and 15, 2 quote
\* logs and 1 trade log have been written and 265 append writes issued.
C12_SampledLogging ==
    /\ log_info.quote = quote_count \div 100
    /\ log_info.trade = trade_count \div 10
    /\ log_info.deltas = deltas_count \div 100
    /\ log_info.bar = Cardinality(EventsOfCat("bar"))
    /\ quote_count = Cardinality(EventsOfCat("quote"))
    /\ trade_count = Cardinality(EventsOfCat("trade"))
    /\ deltas_count = Cardinality(EventsOfCat("deltas"))
    /\ (/\ Len(delivered) = 265
        /\ \A i \in 1..250 : delivered[i].cat = "quote"
        /\ \A i \in 251..265 : delivered[i].cat = "trade")
       => (/\ quote_count = 250
           /\ trade_count = 15
           /\ log_info.quote = 2
           /\ log_info.trade = 1
           /\ Cardinality(AppendWrites) = 265
           /\ Len(writes) = 265)

\* 250 quotes and then 15 trades of one instrument have been routed
C12_Witness ==
    /\ Len(delivered) = 265
    /\ delivered[250].cat = "quote"
    /\ delivered[251].cat = "trade"
    /\ \A i \in 1..265 : delivered[i].key = delivered[1].key
    /\ log_info.quote = 2
    /\ log_info.trade = 1

\* the book-delta callback has logged its hundredth event
C12_DeltasWitness == deltas_count = 100 /\ log_info.deltas = 1

\* ------------------------------------------------------------ claims: status

\* C13: _log_status changes no counter, writes nothing to the catalog and issues
\* no subscribe or unsubscribe call; of two summaries in a row the second reports
\* the same counter values as the first and, the catalog answering the inventory
\* query as it did the first time, the same inventory.
C13_StatusReadOnlyIdempotent ==
    [][(lastOp' = "_log_status")
       => (/\ UNCHANGED <<counterVars, catalogVars, hostVars, rosterVars, log_info>>
           /\ lastOp = "_log_status" =>
                /\ status_report'.counters = status_report.counters
                /\ status_report'.inventory = status_report.inventory =>
                        status_report'.data_types = status_report.data_types)]_vars

\* two summaries in a row after a quote and a bar were written, both listing the
\* inventory
C13_Witness ==
    /\ lastOp = "_log_status"
    /\ prevOp = "_log_status"
    /\ status_report.inventory = "listed"
    /\ status_report.data_types = {"quote", "bar"}
    /\ status_report.counters["quote"] = 1
    /\ Len(delivered) = 2

\* C14: a summary reports the current value of the quote, trade and book-delta
\* counters and of every bar-type entry, and the catalog's list of data types.
C14_ReportsEveryCounter ==
    lastOp = "_log_status" =>
        /\ status_report.counters["quote"] = quote_count
        /\ status_report.counters["trade"] = trade_count
        /\ \A s \in DOMAIN bar_counts : status_report.counters[s] = bar_counts[s]
        /\ status_report.inventory = "listed" =>
                status_report.data_types = list_data_types
        /\ "deltas" \in DOMAIN status_report.counters
        /\ status_report.counters["deltas"] = deltas_count

\* C15: when the inventory query fails, _log_status lets no error escape, logs the
\* failure as an error after the counter lines of the summary, and leaves the
\* counters and the subscriptions as they were.
C15_InventoryFailureCaught ==
    [][(lastOp' = "_log_status" /\ status_report'.inventory = "failed")
       => (/\ raised' = "none"
           /\ log_error' = Append(log_error, <<"catalog", "list_data_types">>)
           /\ status_report'.counters["quote"] = quote_count
           /\ status_report'.counters["trade"] = trade_count
           /\ \A s \in DOMAIN bar_counts : status_report'.counters[s] = bar_counts[s]
           /\ UNCHANGED <<counterVars, hostVars, rosterVars>>)]_vars

\* a summary whose inventory query failed, after a trade and a bar were counted
C15_Witness ==
    /\ lastOp = "_log_status"
    /\ status_report.inventory = "failed"
    /\ raised = "none"
    /\ CatalogErrors = 1
    /\ trade_count = 1
    /\ status_report.counters["trade"] = 1
    /\ \E s \in DOMAIN bar_counts : bar_counts[s] = 1 /\ status_report.counters[s] = 1

\* ---------------------------------------------------------- claims: shutdown

\* C16: on every shutdown path of the host, every subscription of every category
\* has been unsubscribed by the time the node is disposed of.
C16_IntakeStoppedBeforeDispose ==
    node = "disposed" => active = {}

\* ---------------------------------------------------------- claims: ordering

\* the position of the write call for an event, 0 when none has been issued
WritePos(e) ==
    IF \E w \in 1..Len(writes) : writes[w].batch = <<e>>
    THEN CHOOSE w \in 1..Len(writes) : writes[w].batch = <<e>>
    ELSE 0

\* C17: the write call of every delivered event has been issued by the time its
\* callback has returned (nothing is buffered), and of two events of the same
\* category and key the one delivered first is written first.
C17_WrittenInDeliveryOrder ==
    /\ \A i \in 1..Len(delivered) : WritePos(delivered[i]) > 0
    /\ \A i, j \in 1..Len(delivered) :
        (/\ i < j
         /\ delivered[i].cat = delivered[j].cat
         /\ delivered[i].key = delivered[j].key)
        => WritePos(delivered[i]) < WritePos(delivered[j])

\* two trades of one instrument were routed with a quote of the other in between
C17_Witness ==
    /\ Len(delivered) = 3
    /\ delivered[1].cat = "trade"
    /\ delivered[3].cat = "trade"
    /\ delivered[1].key = delivered[3].key
    /\ delivered[2].cat = "quote"
    /\ delivered[2].key # delivered[1].key
    /\ WritePos(delivered[1]) = 1
    /\ WritePos(delivered[3]) = 3

\* ------------------------------------------------- claims: parallel delivery

AllDone == \A t \in Threads : thread[t].pc = "done"

\* every counted category's total equals the number of its delivered events
NothingLost ==
    \A cat \in CountedCats : CategoryTotal(cat) = Cardinality(EventsOfCat(cat))

C19_CountersMonotone ==
    [][/\ quote_count' >= quote_count
       /\ trade_count' >= trade_count
       /\ deltas_count' >= deltas_count
       /\ DOMAIN bar_counts \subseteq DOMAIN bar_counts'
       /\ \A s \in DOMAIN bar_counts : bar_counts'[s] >= bar_counts[s]]_vars

\* the actor was started, counted a quote whose write failed, logged its status,
\* was stopped and started again, and the count is still there
C19_Witness ==
    /\ opCount = 3
    /\ lastOp = "on_start"
    /\ prevOp = "on_stop"
    /\ Len(delivered) = 1
    /\ delivered[1].cat = "quote"
    /\ ~writes[1].ok
    /\ quote_count = 1
    /\ status_report # NoReport

\* ------------------------------------------------------------ claims: frame

\* the event a step has routed
Last(s) == s[Len(s)]

\* C20: a routing callback changes no counter but the one of its event (the
\* field of a quote, trade or book update, the bar_counts entry of a bar's type,
\* none for an instrument) and changes neither the configuration, the rosters,
\* the subscriptions nor the status summary; and no step of the actor changes
\* the rosters.
C20_CallbackFrame ==
    [][/\ UNCHANGED rosterVars
       /\ delivered' # delivered =>
            LET e == Last(delivered') IN
            /\ UNCHANGED <<configVars, hostVars, status_report>>
            /\ e.cat # "quote" => quote_count' = quote_count
            /\ e.cat # "trade" => trade_count' = trade_count
            /\ e.cat # "deltas" => deltas_count' = deltas_count
            /\ e.cat # "bar" => bar_counts' = bar_counts
            /\ e.cat = "bar" =>
                /\ DOMAIN bar_counts' = DOMAIN bar_counts \cup {BarTypeStr(e.key)}
                /\ \A s \in DOMAIN bar_counts :
                        s # BarTypeStr(e.key) => bar_counts'[s] = bar_counts[s]]_vars

\* a book update was routed between a start and a stop: only the book-delta
\* counter has moved
C20_Witness ==
    /\ lastOp = "on_stop"
    /\ Len(delivered) = 1
    /\ delivered[1].cat = "deltas"
    /\ deltas_count = 1
    /\ quote_count = 0
    /\ trade_count = 0
    /\ \A s \in DOMAIN bar_counts : bar_counts[s] = 0
    /\ instrument_ids # <<>>

====
